---------------------------- MODULE Spec2Model ----------------------------
(***************************************************************************)
(* A model of homework_bot: src/homework.py (the poll-check-notify loop    *)
(* and its helper functions) and src/exceptions.py.                        *)
(*                                                                         *)
(* Two specifications:                                                     *)
(*   Spec        main() and every function it calls, from the entry of     *)
(*               main() on, with the names used by homework.py bound.      *)
(*   SpecModule  the load of homework.py itself (its import statements),   *)
(*               which is what binds those names.                          *)
(*                                                                         *)
(* Texts are sequences of string tokens.  A formatted text starts with the *)
(* name of the template constant it was rendered from; Russian literals of *)
(* the source are written here by the name of their constant or in ASCII.  *)
(***************************************************************************)
EXTENDS Integers, Sequences, FiniteSets, TLC

\* ------------------------------------------------------------------ bounds

\* Timestamps (time.time() at startup, the server's current_date) range over
\* 0 .. MaxTime.
MaxTime == 1

\* ------------------------------------------------------- program constants

RETRY_PERIOD == 600

HTTP_OK == 200

\* The status codes the modelled server answers with.
StatusCodes == {HTTP_OK, 503}

\* A value of os.getenv: the variable is unset, set to the empty string, or
\* set to a usable value.
None == "<None>"
EnvValues == {None, "", "token"}

TOKENS == <<"PRACTICUM_TOKEN", "TELEGRAM_TOKEN", "TELEGRAM_CHAT_ID">>

HOMEWORK_VERDICTS ==
    [approved  |-> "VERDICT_approved",
     reviewing |-> "VERDICT_reviewing",
     rejected  |-> "VERDICT_rejected"]

\* The format strings of the module: the name and, in order, the replacement
\* fields.  "" is an auto-numbered field {}; any other string is a named
\* field {name}.
TOKEN_NOT_FOUND    == [name |-> "TOKEN_NOT_FOUND", fields |-> <<"">>]
STATUS_ERROR       == [name |-> "STATUS_ERROR",
                       fields |-> <<"status", "reason", "text", "url",
                                    "headers", "params">>]
KEY_ERROR          == [name |-> "KEY_ERROR",
                       fields |-> <<"error", "key", "url", "headers",
                                    "params">>]
CONNECT_ERROR      == [name |-> "CONNECT_ERROR",
                       fields |-> <<"error", "url", "params">>]
CHANGED_STATUS     == [name |-> "CHANGED_STATUS",
                       fields |-> <<"homework_name", "verdicts">>]
TOKEN_ERROR        == <<"TOKEN_ERROR">>
ERROR_MESSAGE      == [name |-> "ERROR_MESSAGE", fields |-> <<"">>]
SEND_MESSAGE_ERROR == [name |-> "SEND_MESSAGE_ERROR",
                       fields |-> <<"message", "error">>]
ERROR_NOT_DICT     == [name |-> "ERROR_NOT_DICT", fields |-> <<"type">>]
ERROR_NOT_LIST     == [name |-> "ERROR_NOT_LIST", fields |-> <<"type">>]
ERROR_STATUS       == [name |-> "ERROR_STATUS", fields |-> <<"status">>]

ENDPOINT == <<"ENDPOINT">>

\* ------------------------------------------------- exceptions and outcomes

\* An exception is its class and its message; NoExc stands for "none".
Exc(cls, msg) == [cls |-> cls, msg |-> msg]
NoExc == Exc("", <<>>)

\* The outcome of a call: it raised exc, or (exc = NoExc) returned val.
Raise(cls, msg) == [exc |-> Exc(cls, msg), val |-> <<>>]
Return(v) == [exc |-> NoExc, val |-> v]
Raised(o) == o.exc # NoExc

\* str(error): the message, except for KeyError, whose str is the repr of its
\* argument.
Str(e) == IF e.cls = "KeyError" THEN <<"'">> \o e.msg \o <<"'">> ELSE e.msg

Contains(text, token) == \E i \in DOMAIN text : text[i] = token

\* No keyword arguments.
NoKwargs == [k \in {} |-> <<>>]

\* str.format(*args, **kwargs) over the fields from the i-th on, `auto` of the
\* auto-numbered fields already consumed: the first field that has no argument
\* raises (KeyError for a named field, IndexError for a positional one).
RECURSIVE FormatFrom(_, _, _, _, _)
FormatFrom(fields, i, auto, args, kwargs) ==
    IF i > Len(fields) THEN Return(<<>>)
    ELSE IF fields[i] = ""
    THEN IF auto + 1 > Len(args)
         THEN Raise("IndexError", <<"Replacement index out of range">>)
         ELSE LET rest == FormatFrom(fields, i + 1, auto + 1, args, kwargs)
              IN  IF Raised(rest) THEN rest
                  ELSE Return(args[auto + 1] \o rest.val)
    ELSE IF fields[i] \notin DOMAIN kwargs
         THEN Raise("KeyError", <<fields[i]>>)
         ELSE LET rest == FormatFrom(fields, i + 1, auto, args, kwargs)
              IN  IF Raised(rest) THEN rest
                  ELSE Return(kwargs[fields[i]] \o rest.val)

\* template.format(*args, **kwargs)
Format(template, args, kwargs) ==
    LET r == FormatFrom(template.fields, 1, 0, args, kwargs)
    IN  IF Raised(r) THEN r ELSE Return(<<template.name>> \o r.val)

\* raise cls(<formatted>): evaluating the argument may itself raise.
RaiseFormatted(cls, formatted) ==
    IF Raised(formatted) THEN formatted ELSE Raise(cls, formatted.val)

\* ------------------------------------------------------------ JSON values

Statuses == {"approved", "reviewing", "rejected", "pending"}

HomeworkKeys == {"homework_name", "status"}

\* An element of the homeworks list: a mapping with some of the two keys, or
\* a value that is no mapping.
Homework(type, keys, status) ==
    [type |-> type, keys |-> keys,
     homework_name |-> IF "homework_name" \in keys THEN "lab1" ELSE "",
     status |-> status]

HomeworkRecords ==
    {Homework("dict", ks, "") : ks \in {{}, {"homework_name"}}}
    \cup {Homework("dict", {"status"}, "approved")}
    \cup {Homework("dict", HomeworkKeys, s) : s \in Statuses}
    \cup {Homework("int", {}, "")}

\* The value under the homeworks key: a list (empty, of one record, or of a
\* record followed by an older one), or a value that is no list.
OlderHomework == Homework("dict", HomeworkKeys, "reviewing")

\* The records that also come with an older one behind them.
NewerHomeworks ==
    {Homework("dict", HomeworkKeys, "approved"),
     Homework("dict", HomeworkKeys, "pending")}

HomeworksValue(type, items) == [type |-> type, items |-> items]

HomeworksValues ==
    {HomeworksValue("list", <<>>)}
    \cup {HomeworksValue("list", <<h>>) : h \in HomeworkRecords}
    \cup {HomeworksValue("list", <<h, OlderHomework>>) : h \in NewerHomeworks}
    \cup {HomeworksValue("int", <<>>)}

\* A decoded response body.  Fields of absent keys hold a fixed default.
Json(type, keys, homeworks, current_date) ==
    [type |-> type, keys |-> keys, homeworks |-> homeworks,
     current_date |-> current_date]

NoJson == Json("unbound", {}, HomeworksValue("list", <<>>), 0)

DictBodies ==
    {Json("dict", {"homeworks"}, h, 0) : h \in HomeworksValues}
    \cup {Json("dict", {"homeworks", "current_date"}, h, d) :
            h \in HomeworksValues, d \in 0..MaxTime}
    \cup {Json("dict", {}, HomeworksValue("list", <<>>), 0)}
    \cup {Json("dict", {"current_date"}, HomeworksValue("list", <<>>), d) :
            d \in 0..MaxTime}
    \cup {Json("dict", {k, "homeworks"},
               HomeworksValue("list", <<OlderHomework>>), 0) :
            k \in {"error", "code"}}

\* Bodies: the mappings, a top-level list, a top-level integer, and a body
\* that is not JSON.
Bodies ==
    DictBodies
    \cup {Json(t, {}, HomeworksValue("list", <<>>), 0) :
            t \in {"list", "int", "invalid"}}

\* type(x) as it is rendered in a message.
TypeName(type) == <<"<class", type, ">">>

\* --------------------------------------------------------------- functions

\* response.get(key, default) for the key current_date.
GetCurrentDate(resp, default) ==
    IF "current_date" \in resp.keys THEN resp.current_date ELSE default

\* The request parameters as rendered in a message:
\* parameters = {url, headers, params: {from_date: timestamp}}.
Parameters(token, ts) ==
    [url |-> ENDPOINT,
     headers |-> <<"Authorization", "OAuth", token>>,
     params |-> <<"from_date", ToString(ts)>>]

\* What the network does with one request: requests.get raises, or answers
\* with a status code and a body.
Nets ==
    {[raises |-> TRUE, status_code |-> 0, body |-> NoJson]}
    \cup {[raises |-> FALSE, status_code |-> s, body |-> b] :
            s \in StatusCodes, b \in Bodies}

\* key in response_json, for a key of ('error', 'code').
HasKey(json, key) == json.type = "dict" /\ key \in json.keys

\* get_api_answer(timestamp), the network answering with net.
get_api_answer(token, ts, net) ==
    LET p == Parameters(token, ts) IN
    IF net.raises
    THEN RaiseFormatted("ConnectionError",
            Format(CONNECT_ERROR, <<>>,
                   [url |-> p.url, headers |-> p.headers, params |-> p.params,
                    error |-> <<"RequestException">>]))
    ELSE IF net.status_code # HTTP_OK
    THEN RaiseFormatted("StatusCodeError",
            Format(STATUS_ERROR, <<>>,
                   [status |-> <<ToString(net.status_code)>>,
                    reason |-> <<"reason">>,
                    text |-> <<"text", net.body.type>>,
                    url |-> p.url, headers |-> p.headers, params |-> p.params]))
    ELSE IF net.body.type = "invalid"
    THEN Raise("JSONDecodeError", <<"Expecting value">>)
    ELSE IF net.body.type = "int"
    THEN Raise("TypeError", <<"argument of type 'int' is not iterable">>)
    ELSE IF HasKey(net.body, "error")
    THEN RaiseFormatted("InvalidResponseCodeError",
            Format(KEY_ERROR, <<>>,
                   [error |-> <<"error value">>, key |-> <<"error">>,
                    url |-> p.url, headers |-> p.headers, params |-> p.params]))
    ELSE IF HasKey(net.body, "code")
    THEN RaiseFormatted("InvalidResponseCodeError",
            Format(KEY_ERROR, <<>>,
                   [error |-> <<"code value">>, key |-> <<"code">>,
                    url |-> p.url, headers |-> p.headers, params |-> p.params]))
    ELSE Return(net.body)

\* check_response with the test of the homeworks value left out.
check_response_no_list_test(resp) ==
    IF resp.type # "dict"
    THEN RaiseFormatted("TypeError",
            Format(ERROR_NOT_DICT, <<>>, [type |-> TypeName(resp.type)]))
    ELSE IF "homeworks" \notin resp.keys
    THEN Raise("KeyError", <<"Missing key homeworks.">>)
    ELSE Return(resp.homeworks.items)

\* check_response(response)
check_response(resp) ==
    IF resp.type # "dict"
    THEN RaiseFormatted("TypeError",
            Format(ERROR_NOT_DICT, <<>>, [type |-> TypeName(resp.type)]))
    ELSE IF "homeworks" \notin resp.keys
    THEN Raise("KeyError", <<"Missing key homeworks.">>)
    ELSE IF resp.homeworks.type # "list"
    THEN RaiseFormatted("TypeError",
            Format(ERROR_NOT_LIST, <<>>,
                   [type |-> TypeName(resp.homeworks.type)]))
    ELSE Return(resp.homeworks.items)

\* parse_status(homework)
parse_status(homework) ==
    IF homework.type # "dict"
    THEN Raise("TypeError", <<"argument of type 'int' is not iterable">>)
    ELSE IF "homework_name" \notin homework.keys
    THEN Raise("KeyError", <<"Missing key homework_name in the API answer">>)
    ELSE IF "status" \notin homework.keys
    THEN Raise("KeyError", <<"Missing key status in the API answer">>)
    ELSE IF homework.status \notin DOMAIN HOMEWORK_VERDICTS
    THEN RaiseFormatted("ValueError",
            Format(ERROR_STATUS, <<(<<homework.status>>)>>, NoKwargs))
    ELSE Format(CHANGED_STATUS, <<>>,
                [homework_name |-> <<homework.homework_name>>,
                 verdicts |-> <<HOMEWORK_VERDICTS[homework.status]>>])

\* What bot.send_message does with one message.
BotOutcomes == {"ok", "TelegramError"}

\* send_message(bot, message), the bot answering with o.
send_message(msg, o) ==
    IF o = "ok" THEN Return(<<>>)
    ELSE RaiseFormatted("TelegramSendError",
            Format(SEND_MESSAGE_ERROR, <<>>,
                   [message |-> msg, error |-> <<"TelegramError">>]))

\* check_tokens(), over the module's globals g.
check_tokens(g) == \A i \in DOMAIN TOKENS : g[TOKENS[i]] # None

\* telegram.Bot(token=...): the library refuses an empty token.
Bot(token) ==
    IF token = "" THEN Raise("InvalidToken", <<"Invalid token">>)
    ELSE Return(<<>>)

\* ------------------------------------------------------------------ state

VARIABLES
    environ,          \* os.environ: PRACTICUM_TOKEN, TOKEN, CHAT_ID
    globals,          \* the module's PRACTICUM_TOKEN, TELEGRAM_TOKEN, TELEGRAM_CHAT_ID
    name,             \* __name__: "__main__" (run as a script) or "homework"
    bound,            \* the names the import from exceptions has bound
    pc,               \* the statement about to run
    timestamp,        \* main: timestamp
    response,         \* main: response
    homeworks,        \* main: homeworks
    message,          \* the text handed to send_message
    error,            \* the exception an except clause has caught
    pending,          \* what the finally clause resumes: none, continue, raise
    uncaught,         \* the exception that has left (or is leaving) main
    from_date,        \* observed: from_date of the latest request, -1 before it
    last_status,      \* observed: status code of the latest answer, 0 if none
    slept,            \* observed: seconds slept since the latest request
    sent,             \* observed: the calls of bot.send_message in this cycle
    prev_error_sent,  \* observed: the error text sent in the cycle before
    outcome,          \* observed: how this cycle ended
    failed_step       \* observed: the step of this cycle that raised

vars == <<environ, globals, name, bound, pc, timestamp, response, homeworks,
          message, error, pending, uncaught, from_date, last_status, slept,
          sent, prev_error_sent, outcome, failed_step>>

Environments ==
    [PRACTICUM_TOKEN : EnvValues, TOKEN : EnvValues, CHAT_ID : EnvValues]

\* PRACTICUM_TOKEN = os.getenv('PRACTICUM_TOKEN') and the two lines after it.
GetEnv(env) ==
    [PRACTICUM_TOKEN  |-> env.PRACTICUM_TOKEN,
     TELEGRAM_TOKEN   |-> env.TOKEN,
     TELEGRAM_CHAT_ID |-> env.CHAT_ID]

Unbound == "<unbound>"
NoGlobals ==
    [PRACTICUM_TOKEN |-> Unbound, TELEGRAM_TOKEN |-> Unbound,
     TELEGRAM_CHAT_ID |-> Unbound]

\* The classes exceptions.py defines.
ExceptionsModule ==
    {"InvalidResponseCodeError", "TelegramSendError", "TokenError"}

\* from exceptions import (...): the names, in order.
ImportedNames ==
    <<"InvalidResponseCodeError", "TelegramSendError", "StatusCodeError">>

\* The error text bot.send_message was called with in a cycle (<<>> if none).
ErrorSent(calls) ==
    IF \E i \in DOMAIN calls : calls[i].kind = "error"
    THEN calls[CHOOSE i \in DOMAIN calls : calls[i].kind = "error"].text
    ELSE <<>>

Call(kind, text, o) == [kind |-> kind, text |-> text, ok |-> ~Raised(o)]

\* The state of the locals of main() before any is assigned.
MainLocals ==
    /\ timestamp = -1
    /\ response = NoJson
    /\ homeworks = <<>>
    /\ message = <<>>
    /\ error = NoExc
    /\ pending = "none"
    /\ uncaught = NoExc
    /\ from_date = -1
    /\ last_status = 0
    /\ slept = 0
    /\ sent = <<>>
    /\ prev_error_sent = <<>>
    /\ outcome = ""
    /\ failed_step = ""

\* main() is entered: the module is loaded, its globals read from the
\* environment, every imported name bound.
Init ==
    /\ environ \in Environments
    /\ globals = GetEnv(environ)
    /\ name = "__main__"
    /\ bound = {ImportedNames[i] : i \in DOMAIN ImportedNames}
    /\ pc = "main"
    /\ MainLocals

\* ---------------------------------------------------------------- main()

\* if not check_tokens(): raise ...; bot = telegram.Bot(...);
\* timestamp = int(time.time())
MainStart ==
    /\ pc = "main"
    /\ IF ~check_tokens(globals)
       THEN /\ uncaught' = Exc("ValueError", TOKEN_ERROR)
            /\ pc' = "exit"
            /\ UNCHANGED timestamp
       ELSE IF Raised(Bot(globals.TELEGRAM_TOKEN))
       THEN /\ uncaught' = Bot(globals.TELEGRAM_TOKEN).exc
            /\ pc' = "exit"
            /\ UNCHANGED timestamp
       ELSE /\ \E now \in 0..MaxTime : timestamp' = now
            /\ pc' = "get_api_answer"
            /\ UNCHANGED uncaught
    /\ UNCHANGED <<environ, globals, name, bound, response, homeworks,
                   message, error, pending, from_date, last_status, slept,
                   sent, prev_error_sent, outcome, failed_step>>

\* An exception raised in the try block is caught by `except Exception`.
Caught(exc, step) ==
    /\ error' = exc
    /\ failed_step' = step
    /\ pc' = "except"

\* response = get_api_answer(timestamp): a new cycle starts.  Locals that the
\* new cycle assigns before it reads them are reset here.
GetApiAnswer ==
    /\ pc = "get_api_answer"
    /\ \E net \in Nets :
         LET r == get_api_answer(globals.PRACTICUM_TOKEN, timestamp, net) IN
         /\ last_status' = net.status_code
         /\ IF Raised(r)
            THEN /\ Caught(r.exc, "fetch")
                 /\ response' = NoJson
            ELSE /\ response' = r.val
                 /\ pc' = "check_response"
                 /\ error' = NoExc
                 /\ failed_step' = ""
    /\ from_date' = timestamp
    /\ slept' = 0
    /\ prev_error_sent' = ErrorSent(sent)
    /\ sent' = <<>>
    /\ outcome' = ""
    /\ homeworks' = <<>>
    /\ message' = <<>>
    /\ UNCHANGED <<environ, globals, name, bound, timestamp, pending, uncaught>>

\* `continue` inside try ... finally runs the finally clause.
ContinueSkipsFinally == "get_api_answer"
ContinueTarget == "finally"

\* homeworks = check_response(response); if homeworks: ... else: continue
CheckResponse ==
    /\ pc = "check_response"
    /\ LET r == check_response(response) IN
       IF Raised(r)
       THEN /\ Caught(r.exc, "validation")
            /\ UNCHANGED <<homeworks, pending, outcome>>
       ELSE /\ homeworks' = r.val
            /\ IF Len(r.val) > 0
               THEN /\ pc' = "parse_status"
                    /\ UNCHANGED <<pending, outcome>>
               ELSE /\ pc' = ContinueTarget
                    /\ pending' = "continue"
                    /\ outcome' = "empty"
            /\ UNCHANGED <<error, failed_step>>
    /\ UNCHANGED <<environ, globals, name, bound, timestamp, response,
                   message, uncaught, from_date, last_status, slept, sent,
                   prev_error_sent>>

\* parse_status(homeworks[0]), the argument of send_message
ParseStatus ==
    /\ pc = "parse_status"
    /\ LET r == parse_status(homeworks[1]) IN
       IF Raised(r)
       THEN /\ Caught(r.exc, "format")
            /\ UNCHANGED message
       ELSE /\ message' = r.val
            /\ pc' = "send_message"
            /\ UNCHANGED <<error, failed_step>>
    /\ UNCHANGED <<environ, globals, name, bound, timestamp, response,
                   homeworks, pending, uncaught, from_date, last_status,
                   slept, sent, prev_error_sent, outcome>>

\* SendStatus with the watermark advanced before the message is sent.
SendStatusAfterAdvance ==
    /\ pc = "send_message"
    /\ timestamp' = GetCurrentDate(response, timestamp)
    /\ \E o \in BotOutcomes :
         LET r == send_message(message, o) IN
         /\ sent' = Append(sent, Call("status", message, r))
         /\ IF Raised(r)
            THEN Caught(r.exc, "delivery")
            ELSE /\ pc' = "finally"
                 /\ UNCHANGED <<error, failed_step>>
    /\ UNCHANGED <<environ, globals, name, bound, response, homeworks,
                   message, pending, uncaught, from_date, last_status, slept,
                   prev_error_sent, outcome>>

\* send_message(bot, <status message>)
SendStatus ==
    /\ pc = "send_message"
    /\ \E o \in BotOutcomes :
         LET r == send_message(message, o) IN
         /\ sent' = Append(sent, Call("status", message, r))
         /\ IF Raised(r)
            THEN Caught(r.exc, "delivery")
            ELSE /\ pc' = "advance"
                 /\ UNCHANGED <<error, failed_step>>
    /\ UNCHANGED <<environ, globals, name, bound, timestamp, response,
                   homeworks, message, pending, uncaught, from_date,
                   last_status, slept, prev_error_sent, outcome>>

\* The watermark left where it was.
KeepTimestamp(resp, ts) == ts

\* The right-hand side of timestamp = response.get('current_date', timestamp)
NextTimestamp(resp, ts) == GetCurrentDate(resp, ts)

\* timestamp = response.get('current_date', timestamp)
Advance ==
    /\ pc = "advance"
    /\ timestamp' = NextTimestamp(response, timestamp)
    /\ outcome' = "sent"
    /\ pc' = "finally"
    /\ UNCHANGED <<environ, globals, name, bound, response, homeworks,
                   message, error, pending, uncaught, from_date, last_status,
                   slept, sent, prev_error_sent, failed_step>>

\* An exception raised inside an except clause leaves the try statement once
\* the finally clause has run.
Propagate(exc) ==
    /\ pending' = "raise"
    /\ uncaught' = exc
    /\ error' = NoExc
    /\ pc' = "finally"

\* except Exception as error: message = ERROR_MESSAGE.format(error);
\* logging.exception(message)
Except ==
    /\ pc = "except"
    /\ LET m == Format(ERROR_MESSAGE, <<Str(error)>>, NoKwargs) IN
       IF Raised(m)
       THEN /\ Propagate(m.exc)
            /\ outcome' = "error_unnotified"
            /\ UNCHANGED message
       ELSE /\ message' = m.val
            /\ pc' = "send_error"
            /\ UNCHANGED <<error, pending, uncaught, outcome>>
    /\ UNCHANGED <<environ, globals, name, bound, timestamp, response,
                   homeworks, from_date, last_status, slept, sent,
                   prev_error_sent, failed_step>>

\* try: send_message(bot, message)
SendError ==
    /\ pc = "send_error"
    /\ \E o \in BotOutcomes :
         LET r == send_message(message, o) IN
         /\ sent' = Append(sent, Call("error", message, r))
         /\ IF Raised(r)
            THEN /\ error' = r.exc
                 /\ pc' = "log_send_error"
                 /\ UNCHANGED outcome
            ELSE /\ error' = NoExc
                 /\ outcome' = "error_notified"
                 /\ pc' = "finally"
    /\ UNCHANGED <<environ, globals, name, bound, timestamp, response,
                   homeworks, message, pending, uncaught, from_date,
                   last_status, slept, prev_error_sent, failed_step>>

\* except Exception as error: logging.error(SEND_MESSAGE_ERROR.format(error))
LogSendError ==
    /\ pc = "log_send_error"
    /\ LET m == Format(SEND_MESSAGE_ERROR, <<Str(error)>>, NoKwargs) IN
       IF Raised(m)
       THEN Propagate(m.exc)
       ELSE /\ error' = NoExc
            /\ pc' = "finally"
            /\ UNCHANGED <<pending, uncaught>>
    /\ outcome' = "error_unnotified"
    /\ UNCHANGED <<environ, globals, name, bound, timestamp, response,
                   homeworks, message, from_date, last_status, slept, sent,
                   prev_error_sent, failed_step>>

\* finally: time.sleep(RETRY_PERIOD); then what the try statement was left
\* with: the next iteration, or the exception on its way out of main().
Sleep ==
    /\ pc = "finally"
    /\ slept' = slept + RETRY_PERIOD
    /\ IF pending = "raise"
       THEN pc' = "exit"
       ELSE pc' = "get_api_answer"
    /\ pending' = IF pending = "raise" THEN pending ELSE "none"
    /\ UNCHANGED <<environ, globals, name, bound, timestamp, response,
                   homeworks, message, error, uncaught, from_date,
                   last_status, sent, prev_error_sent, outcome, failed_step>>

Next ==
    \/ MainStart
    \/ GetApiAnswer
    \/ CheckResponse
    \/ ParseStatus
    \/ SendStatus
    \/ Advance
    \/ Except
    \/ SendError
    \/ LogSendError
    \/ Sleep

Spec == Init /\ [][Next]_vars

\* ----------------------------------------------------- loading homework.py

\* The names of ImportedNames bound before the first one the module lacks.
RECURSIVE BoundFrom(_, _)
BoundFrom(names, i) ==
    IF i > Len(names) \/ names[i] \notin ExceptionsModule THEN {}
    ELSE {names[i]} \cup BoundFrom(names, i + 1)

\* The interpreter starts on homework.py: nothing is bound yet.
InitModule ==
    /\ environ \in Environments
    /\ globals = NoGlobals
    /\ name \in {"__main__", "homework"}
    /\ bound = {}
    /\ pc = "import"
    /\ MainLocals

\* Where the load of the module ends: with the ImportError, or at the
\* statement after the imports.
ModuleEnds == {"ImportError", "load_dotenv"}

\* import logging ... from requests import RequestException
ImportLibraries ==
    /\ pc = "import"
    /\ pc' = "from_exceptions"
    /\ UNCHANGED <<environ, globals, name, bound, timestamp, response,
                   homeworks, message, error, pending, uncaught, from_date,
                   last_status, slept, sent, prev_error_sent, outcome,
                   failed_step>>

\* from exceptions import (InvalidResponseCodeError, TelegramSendError,
\*                         StatusCodeError)
ImportExceptions ==
    /\ pc = "from_exceptions"
    /\ bound' = BoundFrom(ImportedNames, 1)
    /\ IF \A i \in DOMAIN ImportedNames : ImportedNames[i] \in ExceptionsModule
       THEN /\ pc' = "load_dotenv"
            /\ UNCHANGED uncaught
       ELSE /\ pc' = "ImportError"
            /\ uncaught' = Exc("ImportError",
                               <<"cannot import name from exceptions">>)
    /\ UNCHANGED <<environ, globals, name, timestamp, response, homeworks,
                   message, error, pending, from_date, last_status, slept,
                   sent, prev_error_sent, outcome, failed_step>>

NextModule ==
    \/ ImportLibraries
    \/ ImportExceptions

SpecModule == InitModule /\ [][NextModule]_vars

\* ------------------------------------------------------------------ claims

KnownStatuses == {"approved", "reviewing", "rejected"}

Credentials == {"PRACTICUM_TOKEN", "TELEGRAM_TOKEN", "TELEGRAM_CHAT_ID"}

\* A fetch has been issued in this run of main().
Fetched == from_date # -1

\* C1: if two consecutive cycles fail with the identical error text, the
\* notifier is invoked for that text at most once over the two cycles; if the
\* text of the second cycle differs, the notifier is invoked for the new text.
C1_ErrorNotificationDeduplicated ==
    /\ ~(ErrorSent(sent) # <<>> /\ ErrorSent(sent) = prev_error_sent)
    /\ (pc = "finally" /\ failed_step # "" /\ message # prev_error_sent)
          => ErrorSent(sent) = message

\* C2: when the delivery of a notification fails, the failure is only logged:
\* no exception leaves the main loop (none is pending over the sleep, main
\* does not exit), and after the sleep the next fetch is due.
C2_DeliveryFailureOnlyLogged ==
    (\E i \in DOMAIN sent : ~sent[i].ok)
        => /\ pending # "raise"
           /\ uncaught = NoExc
           /\ pc # "exit"

\* C3 as claimed: after a cycle whose response passed validation and in which
\* no step failed, with an empty homework list or not, the next fetch is due
\* with the response's current_date when the key is present and with the
\* previous watermark otherwise.
C3_WatermarkAfterAnySuccess ==
    (pc = "get_api_answer" /\ outcome \in {"sent", "empty"})
        => timestamp = IF "current_date" \in response.keys
                       THEN response.current_date
                       ELSE from_date

\* C3 as amended: after a cycle that sent the status of a non-empty homework
\* list, the next fetch is due with the response's current_date when the key
\* is present and with the previous watermark otherwise; after a cycle whose
\* validated homework list is empty, it is due with the previous watermark.
C3_WatermarkAfterNotification ==
    pc = "get_api_answer"
        => /\ outcome = "sent"
                => timestamp = IF "current_date" \in response.keys
                               THEN response.current_date
                               ELSE from_date
           /\ outcome = "empty" => timestamp = from_date

\* A status was sent, the response carried a current_date other than the
\* watermark it was fetched with, and the next fetch is due with it.
C3_Witness ==
    /\ pc = "get_api_answer"
    /\ outcome = "sent"
    /\ "current_date" \in response.keys
    /\ response.current_date # from_date
    /\ timestamp = response.current_date

\* C4: exactly one sleep of RETRY_PERIOD lies between two consecutive fetches,
\* and a cycle that ends main() has slept once as well; no cycle sleeps twice.
C4_OneSleepPerCycle ==
    /\ slept \in {0, RETRY_PERIOD}
    /\ (Fetched /\ pc \in {"get_api_answer", "exit"}) => slept = RETRY_PERIOD
    /\ (Fetched /\ pc \notin {"get_api_answer", "exit"}) => slept = 0

\* The cycle took the continue path (empty list), slept, and the next fetch
\* is due.
C4_Witness ==
    /\ pc = "get_api_answer"
    /\ outcome = "empty"
    /\ pending = "none"
    /\ slept = RETRY_PERIOD

\* The other paths of C4: a status sent, an error notified, and an error whose
\* notification failed as well.
C4_WitnessSent ==
    pc = "get_api_answer" /\ outcome = "sent" /\ slept = RETRY_PERIOD
C4_WitnessNotified ==
    pc = "get_api_answer" /\ outcome = "error_notified"
        /\ slept = RETRY_PERIOD
C4_WitnessUnnotified ==
    outcome = "error_unnotified" /\ pc \in {"get_api_answer", "exit"}
        /\ slept = RETRY_PERIOD

\* C5: the watermark never decreases: the from_date of a fetch is at least
\* the from_date of the fetch before it.
C5_WatermarkNeverDecreases ==
    (Fetched /\ pc = "get_api_answer") => timestamp >= from_date

\* C6: for a record with both keys whose status is not a known one,
\* parse_status fails with ValueError whose text includes the status; it
\* neither returns a message nor fails with another error.
C6_UnknownStatusError ==
    (/\ Len(homeworks) > 0
     /\ pc \in {"except", "send_message"}
     /\ failed_step \in {"", "format"}
     /\ homeworks[1].type = "dict"
     /\ HomeworkKeys \subseteq homeworks[1].keys
     /\ homeworks[1].status \notin KnownStatuses)
        => /\ pc = "except"
           /\ error.cls = "ValueError"
           /\ Contains(error.msg, homeworks[1].status)

\* C7: the main loop is entered (a fetch, a notification or a sleep happens)
\* only if all three credentials are present and non-empty.
C7_LoopNeedsCredentials ==
    (pc \notin {"main", "exit"} \/ Fetched \/ sent # <<>> \/ slept # 0)
        => \A c \in Credentials : globals[c] \notin {None, ""}

\* C8, within main(): a status other than 200 makes get_api_answer fail with
\* StatusCodeError carrying the status code, whatever the body; no status
\* notification is sent in that cycle and the watermark is not advanced.
C8_InMain ==
    (Fetched /\ last_status \notin {0, HTTP_OK})
        => /\ failed_step = "fetch"
           /\ pc = "except" =>
                /\ error.cls = "StatusCodeError"
                /\ Contains(error.msg, ToString(last_status))
           /\ \A i \in DOMAIN sent : sent[i].kind # "status"
           /\ timestamp = from_date

\* C8: a status other than 200 makes get_api_answer fail with StatusCodeError:
\* the load of homework.py binds StatusCodeError, the class get_api_answer
\* raises, and within main() the failure is as C8_InMain says.
C8_StatusCodeErrorOnNon200 ==
    /\ pc \in ModuleEnds
          => /\ pc # "ImportError"
             /\ "StatusCodeError" \in bound
    /\ C8_InMain

\* What check_response is to answer for a response: the class and template
\* of the error, or "" for a return.
C9_Reference(resp) ==
    IF resp.type # "dict" THEN <<"TypeError", "ERROR_NOT_DICT">>
    ELSE IF "homeworks" \notin resp.keys
    THEN <<"KeyError", "Missing key homeworks.">>
    ELSE IF resp.homeworks.type # "list" THEN <<"TypeError", "ERROR_NOT_LIST">>
    ELSE <<"", "">>

\* C9: check_response answers as the reference: TypeError for a response that
\* is no mapping, else KeyError without the homeworks key, else TypeError for
\* a homeworks value that is no list, else the list itself, unchanged; in the
\* three error cases nothing is returned.
C9_CheckResponseReference ==
    /\ (pc = "except" /\ failed_step = "validation")
          => /\ C9_Reference(response) = <<error.cls, error.msg[1]>>
             /\ homeworks = <<>>
    /\ (/\ response # NoJson
        /\ \/ pc \in {"parse_status", "send_message", "advance"}
           \/ outcome \in {"sent", "empty"}
           \/ failed_step \in {"format", "delivery"})
          => /\ C9_Reference(response) = <<"", "">>
             /\ homeworks = response.homeworks.items
    /\ failed_step = "validation" => C9_Reference(response)[1] # ""

\* check_response has refused a mapping whose homeworks value is no list.
C9_Witness ==
    /\ pc = "except"
    /\ failed_step = "validation"
    /\ response.type = "dict"
    /\ "homeworks" \in response.keys
    /\ error.cls = "TypeError"

\* check_response has returned a list of two records unchanged.
C9_WitnessReturn ==
    pc = "parse_status" /\ Len(homeworks) = 2
        /\ homeworks = response.homeworks.items

\* C10: a cycle in which a step failed leaves the watermark unchanged, and
\* when its error notification was delivered main() goes on: no exception is
\* pending, and after the sleep the next fetch is due with the watermark of
\* the failed cycle.
C10_FailedCycleRetried ==
    /\ failed_step # "" => timestamp = from_date
    /\ outcome = "error_notified"
          => /\ failed_step # ""
             /\ pc \in {"finally", "get_api_answer"}
             /\ pending = "none"
             /\ uncaught = NoExc
             /\ pc = "get_api_answer" => slept = RETRY_PERIOD

\* The status notification of a response with a new current_date was not
\* delivered, the error notification was, and the next fetch is due with the
\* old watermark.
C10_Witness ==
    /\ pc = "get_api_answer"
    /\ outcome = "error_notified"
    /\ failed_step = "delivery"
    /\ "current_date" \in response.keys
    /\ response.current_date # from_date
    /\ timestamp = from_date

=============================================================================
